---------------------------- MODULE Spec2Model ----------------------------
(***************************************************************************)
(* Model of test1.py: the AASHTO 93 rigid pavement pipeline.               *)
(*                                                                         *)
(* main() is one sequential process; its position is pc.  The three        *)
(* calculators are operators that return what the Python function prints,  *)
(* what it returns and the exception it raises, if any.                    *)
(*                                                                         *)
(* Python floats are modelled as decimal fixed-point numbers with three    *)
(* fractional digits (an integer v stands for v / Scale).  log10 and **    *)
(* are computed digit by digit, to about three significant digits; the     *)
(* sign cases of Python's operators (0.0 ** y, negative ** fraction giving *)
(* a complex, log10 and sqrt raising ValueError, division by zero raising  *)
(* ZeroDivisionError, round(complex) raising TypeError) are exact.         *)
(***************************************************************************)
EXTENDS Integers, Sequences, FiniteSets, TLC

(***************************************************************************)
(* Fixed-point arithmetic                                                  *)
(***************************************************************************)

\* One unit of a modelled float: v stands for v / Scale.
Scale == 10 * 10 * 10

\* Internal unit of the mantissa arithmetic of log10 and 10^x.
Fine == Scale * Scale

\* Binary digits of a logarithm's fraction.
NBits == 4 * 3

Abs(n) == IF n < 0 THEN -n ELSE n

Sgn(n) == IF n < 0 THEN -1 ELSE IF n = 0 THEN 0 ELSE 1

RECURSIVE Pow10(_)
Pow10(n) == IF n <= 0 THEN 1 ELSE 10 * Pow10(n - 1)

RECURSIVE Pow2(_)
Pow2(n) == IF n <= 0 THEN 1 ELSE 2 * Pow2(n - 1)

RECURSIVE Digits(_)
Digits(n) == IF n < 10 THEN 1 ELSE 1 + Digits(n \div 10)

\* a * b on floats: (a/Scale) * (b/Scale), truncated toward zero.
MulFx(a, b) ==
    LET x == Abs(a)
        y == Abs(b)
        p == (x \div Scale) * y + ((x % Scale) * y) \div Scale
    IN  Sgn(a) * Sgn(b) * p

\* a / b on floats for b # 0, truncated toward zero.
DivFx(a, b) ==
    LET x == Abs(a)
        y == Abs(b)
        q == (x \div y) * Scale + ((x % y) * Scale) \div y
    IN  Sgn(a) * Sgn(b) * q

\* Product of two mantissas in [1, 10) held in units of 1 / Fine.
MulFine(a, b) ==
    LET a1 == a \div Scale
        a0 == a % Scale
        b1 == b \div Scale
        b0 == b % Scale
    IN  a1 * b1 + (a1 * b0 + a0 * b1) \div Scale + (a0 * b0) \div Fine

\* The binary digits of log10(y) for a mantissa y in [1, 10): square y; a
\* square of 10 or more contributes the digit and is divided by 10.
RECURSIVE LogBits(_, _, _)
LogBits(y, i, acc) ==
    IF i > NBits THEN acc
    ELSE LET s == MulFine(y, y)
         IN  IF s >= 10 * Fine
             THEN LogBits(s \div 10, i + 1, acc + Pow2(NBits - i))
             ELSE LogBits(s, i + 1, acc)

\* log10 of a float x > 0.
Log10Fx(x) ==
    LET d == Digits(x)
        e == d - 4
        m == IF d <= 7 THEN x * Pow10(7 - d) ELSE x \div Pow10(d - 7)
        f == LogBits(m, 1, 0)
    IN  e * Scale + (f * Scale + Pow2(NBits - 1)) \div Pow2(NBits)

\* 10 ^ (1 / 2^i) for i = 1 .. NBits, in units of 1 / Fine.
RootsOfTen ==
    << 3162278, 1778279, 1333521, 1154782, 1074608, 1036633,
       1018152, 1009035, 1004507, 1002251, 1001125, 1000562 >>

\* 10 ^ (acc / 2^NBits) as a mantissa: the product of the roots of ten
\* selected by the binary digits of acc.
RECURSIVE ExpBits(_, _, _)
ExpBits(acc, i, m) ==
    IF i > NBits THEN m
    ELSE IF (acc \div Pow2(NBits - i)) % 2 = 1
         THEN ExpBits(acc, i + 1, MulFine(m, RootsOfTen[i]))
         ELSE ExpBits(acc, i + 1, m)

\* 10 ^ f for a float f.
Exp10Fx(f) ==
    LET n == f \div Scale
        r == f % Scale
        acc == (r * Pow2(NBits) + Scale \div 2) \div Scale
        m == IF acc >= Pow2(NBits) THEN 10 * Fine ELSE ExpBits(acc, 1, Fine)
    IN  IF n >= 3 THEN m * Pow10(n - 3)
        ELSE (m + Pow10(3 - n) \div 2) \div Pow10(3 - n)

\* x ** p for floats x > 0 and p.
PowFx(x, p) == Exp10Fx(MulFx(p, Log10Fx(x)))


(***************************************************************************)
(* Python values and operators                                             *)
(*                                                                         *)
(* A value is [k, v]: k is "float" (v / Scale is the number), "complex"    *)
(* (only the type is kept), "none", or the class of the exception that the *)
(* evaluation raised.  An operator applied to a raised operand yields that *)
(* exception, the left operand first, as Python evaluates.                 *)
(***************************************************************************)

F(v) == [k |-> "float", v |-> v]

Complejo == [k |-> "complex", v |-> 0]

Nada == [k |-> "none", v |-> 0]

Raise(cls) == [k |-> cls, v |-> 0]

IsExc(a) == a.k \notin {"float", "complex", "none"}

\* A JSON number n as a Python number.
Num(n) == F(n * Scale)

\* The first operand that raised, or Nada.
FirstExc(a, b) == IF IsExc(a) THEN a ELSE IF IsExc(b) THEN b ELSE Nada

PyAdd(a, b) ==
    IF FirstExc(a, b) # Nada THEN FirstExc(a, b)
    ELSE IF a.k = "complex" \/ b.k = "complex" THEN Complejo
    ELSE F(a.v + b.v)

PySub(a, b) ==
    IF FirstExc(a, b) # Nada THEN FirstExc(a, b)
    ELSE IF a.k = "complex" \/ b.k = "complex" THEN Complejo
    ELSE F(a.v - b.v)

PyMul(a, b) ==
    IF FirstExc(a, b) # Nada THEN FirstExc(a, b)
    ELSE IF a.k = "complex" \/ b.k = "complex" THEN Complejo
    ELSE F(MulFx(a.v, b.v))

\* a / b: a zero float divisor raises ZeroDivisionError.
PyDiv(a, b) ==
    IF FirstExc(a, b) # Nada THEN FirstExc(a, b)
    ELSE IF b.k = "float" /\ b.v = 0 THEN Raise("ZeroDivisionError")
    ELSE IF a.k = "complex" \/ b.k = "complex" THEN Complejo
    ELSE F(DivFx(a.v, b.v))

\* a ** p for a positive, non-integral float exponent p: 0 ** p is 0.0 and a
\* negative base gives a complex number.
PyPow(a, p) ==
    IF IsExc(a) THEN a
    ELSE IF a.k = "complex" THEN Complejo
    ELSE IF a.v = 0 THEN F(0)
    ELSE IF a.v < 0 THEN Complejo
    ELSE F(PowFx(a.v, p))

\* Mutant: the argument is clamped, as log10(max(a, 1)) would.
MathLog10SinDominio(a) ==
    IF IsExc(a) THEN a
    ELSE IF a.k = "complex" THEN Raise("TypeError")
    ELSE IF a.v <= 0 THEN F(0)
    ELSE F(Log10Fx(a.v))

\* math.log10(a): ValueError ("math domain error") unless a > 0, TypeError
\* for a complex.
MathLog10(a) ==
    IF IsExc(a) THEN a
    ELSE IF a.k = "complex" THEN Raise("TypeError")
    ELSE IF a.v <= 0 THEN Raise("ValueError")
    ELSE F(Log10Fx(a.v))

\* math.sqrt(a): ValueError for a negative a, TypeError for a complex.
MathSqrt(a) ==
    IF IsExc(a) THEN a
    ELSE IF a.k = "complex" THEN Raise("TypeError")
    ELSE IF a.v < 0 THEN Raise("ValueError")
    ELSE IF a.v = 0 THEN F(0)
    ELSE F(PowFx(a.v, Scale \div 2))

\* v rounded to two decimals, a tie going to the even digit.
Round2Fx(v) ==
    LET q == v \div 10
        r == v % 10
    IN  IF r < 5 THEN q * 10
        ELSE IF r > 5 THEN (q + 1) * 10
        ELSE IF q % 2 = 0 THEN q * 10 ELSE (q + 1) * 10

\* round(a, 2): complex defines no __round__, which raises TypeError.
PyRound2(a) ==
    IF IsExc(a) THEN a
    ELSE IF a.k = "complex" THEN Raise("TypeError")
    ELSE F(Round2Fx(a.v))

\* f"{a:.2f}": floats and complex numbers both format.
Fmt2(a) == IF a.k = "float" THEN F(Round2Fx(a.v)) ELSE a

\* One line of standard output: what it reports, the value, a text.
Ev(tag, val) == [tag |-> tag, val |-> val, txt |-> ""]

EvTxt(tag, txt) == [tag |-> tag, val |-> Nada, txt |-> txt]

\* What a call did: the lines it printed, the exception it raised (Nada when
\* it returned) and the value it returned.
Returns(out, ret) == [out |-> out, exc |-> Nada, ret |-> ret]

Raises(out, exc) == [out |-> out, exc |-> exc, ret |-> Nada]

(***************************************************************************)
(* The three calculators                                                   *)
(***************************************************************************)

\* The literals of the formulas, in units of 1 / Scale.
CoefMRSG == 1945000

ExpMRSG == 684

DiezK == 10000

ExpBase == 500

CoefB == 7350

RestaB == 60

ExpK == 250

CoefD1 == 4220

CoefPSI == 320

CoefD2 == 215630

RestaD2 == 18420

DivExp == 1132

EspesorInicial == 7000

Repeticiones == 10

\* calcular_mrsg_subgrade(CBR): 1945 * CBR ** 0.684, printed, then rounded.
calcular_mrsg_subgrade(CBR) ==
    LET o1 == << Ev("Calculando MRSG", Nada), Ev("CBR ingresado", Fmt2(CBR)) >>
        MRSG == PyMul(F(CoefMRSG), PyPow(CBR, ExpMRSG))
        o2 == Append(o1, Ev("MRSG calculado", Fmt2(MRSG)))
        r == PyRound2(MRSG)
    IN  IF IsExc(MRSG) THEN Raises(o1, MRSG)
        ELSE IF IsExc(r) THEN Raises(o2, r)
        ELSE Returns(o2, r)

\* Mutant: a base of no thickness contributes nothing.
calcular_k_sin_base(MRSG, resilient_modulus_base, espesor_base) ==
    LET o1 == << Ev("Calculando K-Value", Nada) >>
        k_subgrade_psi_in == PyDiv(MRSG, F(DiezK))
        k_base_psi_in ==
            IF espesor_base.k = "float" /\ espesor_base.v <= 0 THEN F(0)
            ELSE PyDiv(resilient_modulus_base, PyPow(espesor_base, ExpBase))
        k_total_psi_in == PyAdd(k_subgrade_psi_in, k_base_psi_in)
        o2 == o1 \o << Ev("K-Value de subgrade", Fmt2(k_subgrade_psi_in)),
                       Ev("K-Value adicional de base granular", Fmt2(k_base_psi_in)),
                       Ev("K-Value total de subestructura", Fmt2(k_total_psi_in)) >>
        r == PyRound2(k_total_psi_in)
    IN  IF IsExc(k_subgrade_psi_in) THEN Raises(o1, k_subgrade_psi_in)
        ELSE IF IsExc(k_base_psi_in) THEN Raises(o1, k_base_psi_in)
        ELSE IF IsExc(k_total_psi_in) THEN Raises(o1, k_total_psi_in)
        ELSE IF IsExc(r) THEN Raises(o2, r)
        ELSE Returns(o2, r)

\* calcular_k_subestructura_psi_in(MRSG, resilient_modulus_base, espesor_base)
calcular_k_subestructura_psi_in(MRSG, resilient_modulus_base, espesor_base) ==
    LET o1 == << Ev("Calculando K-Value", Nada) >>
        k_subgrade_psi_in == PyDiv(MRSG, F(DiezK))
        k_base_psi_in ==
            PyDiv(resilient_modulus_base, PyPow(espesor_base, ExpBase))
        k_total_psi_in == PyAdd(k_subgrade_psi_in, k_base_psi_in)
        o2 == o1 \o << Ev("K-Value de subgrade", Fmt2(k_subgrade_psi_in)),
                       Ev("K-Value adicional de base granular", Fmt2(k_base_psi_in)),
                       Ev("K-Value total de subestructura", Fmt2(k_total_psi_in)) >>
        r == PyRound2(k_total_psi_in)
    IN  IF IsExc(k_subgrade_psi_in) THEN Raises(o1, k_subgrade_psi_in)
        ELSE IF IsExc(k_base_psi_in) THEN Raises(o1, k_base_psi_in)
        ELSE IF IsExc(k_total_psi_in) THEN Raises(o1, k_total_psi_in)
        ELSE IF IsExc(r) THEN Raises(o2, r)
        ELSE Returns(o2, r)

\* Mutant: C is computed from Ec where the code reads k.
TerminosEspesorConEc(ESALs, ZR, So, Sc, Cd, Ec, k, delta_PSI) ==
    LET A == PyMul(ZR, So)
        B == PySub(PyMul(F(CoefB), MathLog10(PyAdd(ESALs, Num(1)))), F(RestaB))
        C == PyDiv(PyMul(Sc, Cd), PyPow(Ec, ExpK))
        D1 == PyMul(PySub(F(CoefD1), PyMul(F(CoefPSI), delta_PSI)),
                    MathLog10(ESALs))
        D2 == PySub(PyMul(F(CoefD2), MathSqrt(C)), F(RestaD2))
        exc == IF IsExc(A) THEN A
               ELSE IF IsExc(B) THEN B
               ELSE IF IsExc(C) THEN C
               ELSE IF IsExc(D1) THEN D1
               ELSE IF IsExc(D2) THEN D2
               ELSE Nada
    IN  [A |-> A, B |-> B, C |-> C, D1 |-> D1, D2 |-> D2, exc |-> exc]

\* Lines 60-66 of calcular_espesor_losa_rigida: the terms A, B, C, D1, D2 and
\* the first exception their evaluation raises.  Ec is a parameter and is
\* read by none of them.
TerminosEspesor(ESALs, ZR, So, Sc, Cd, Ec, k, delta_PSI) ==
    LET A == PyMul(ZR, So)
        B == PySub(PyMul(F(CoefB), MathLog10(PyAdd(ESALs, Num(1)))), F(RestaB))
        C == PyDiv(PyMul(Sc, Cd), PyPow(k, ExpK))
        D1 == PyMul(PySub(F(CoefD1), PyMul(F(CoefPSI), delta_PSI)),
                    MathLog10(ESALs))
        D2 == PySub(PyMul(F(CoefD2), MathSqrt(C)), F(RestaD2))
        exc == IF IsExc(A) THEN A
               ELSE IF IsExc(B) THEN B
               ELSE IF IsExc(C) THEN C
               ELSE IF IsExc(D1) THEN D1
               ELSE IF IsExc(D2) THEN D2
               ELSE Nada
    IN  [A |-> A, B |-> B, C |-> C, D1 |-> D1, D2 |-> D2, exc |-> exc]

\* Mutant: a converging step, the mean of the current value and the
\* right-hand side.
IterarEspesorConMemoria(espesor_inicial, T) ==
    PyDiv(PyAdd(espesor_inicial,
                PyPow(PyDiv(PyAdd(T.A, T.B), PyAdd(T.D1, T.D2)),
                      DivFx(Scale, DivExp))),
          Num(2))

\* Line 71, the body of the loop: the new value of espesor_inicial.  The
\* right-hand side does not read the current value.
IterarEspesor(espesor_inicial, T) ==
    PyPow(PyDiv(PyAdd(T.A, T.B), PyAdd(T.D1, T.D2)), DivFx(Scale, DivExp))

\* Lines 69-71: n repetitions of the body from a first value; stops at the
\* repetition that raises.
RECURSIVE BucleEspesor(_, _, _)
BucleEspesor(espesor_inicial, n, T) ==
    IF n = 0 \/ IsExc(espesor_inicial) THEN espesor_inicial
    ELSE BucleEspesor(IterarEspesor(espesor_inicial, T), n - 1, T)

\* Lines 72-73: print the thickness and return it rounded.
FinEspesor(out, espesor_inicial) ==
    LET o2 == Append(out, Ev("Espesor calculado de losa", Fmt2(espesor_inicial)))
        r == PyRound2(espesor_inicial)
    IN  IF IsExc(espesor_inicial) THEN Raises(out, espesor_inicial)
        ELSE IF IsExc(r) THEN Raises(o2, r)
        ELSE Returns(o2, r)

\* The solver from a given first value and number of repetitions.
EspesorDesde(inicial, n, ESALs, ZR, So, Sc, Cd, Ec, k, delta_PSI) ==
    LET o1 == << Ev("Calculando espesor de losa", Nada) >>
        T == TerminosEspesor(ESALs, ZR, So, Sc, Cd, Ec, k, delta_PSI)
    IN  IF T.exc # Nada THEN Raises(o1, T.exc)
        ELSE FinEspesor(o1, BucleEspesor(inicial, n, T))

\* calcular_espesor_losa_rigida(ESALs, ZR, So, Sc, Cd, Ec, k, delta_PSI)
calcular_espesor_losa_rigida(ESALs, ZR, So, Sc, Cd, Ec, k, delta_PSI) ==
    EspesorDesde(F(EspesorInicial), Repeticiones,
                 ESALs, ZR, So, Sc, Cd, Ec, k, delta_PSI)

(***************************************************************************)
(* The input file                                                          *)
(*                                                                         *)
(* What json.load returns is [forma, secc]: forma "dict" with secc mapping *)
(* the top-level keys present to their values, or forma "lista" (a JSON    *)
(* document that is no object); a file that is no JSON has forma           *)
(* "malformado".  A top-level value is [forma, campos]: an object with the *)
(* keys present, or forma "escalar" (a number where an object is           *)
(* expected).  The leaves are JSON numbers.                                *)
(***************************************************************************)

\* Largest magnitudes of the numbers tried for each field.
MaxESALs == 1000000

MaxSc == 650

MaxEc == 2000000

MaxCBR == 8

MaxMR == 30000

MaxEspesorBase == 6

ValoresESALs == {-1, 0, 1, MaxESALs}

ValoresSc == {-MaxSc, 0, MaxSc}

ValoresEc == {MaxEc \div 2, MaxEc}

ValoresCBR == {-MaxCBR, 0, MaxCBR}

ValoresMR == {-MaxMR, 0, MaxMR}

ValoresEspesorBase == {-MaxEspesorBase, 0, MaxEspesorBase}

Directorios == {"/home/usuario", "/tmp/obra"}

ClavesDe ==
    [Traffic |-> {"ESALs"},
     Concrete |-> {"FlexuralStrength", "ModulusOfElasticity"},
     Subgrade |-> {"CBR"},
     Structure |-> {"ResilientModulus", "LayerThickness"}]

Secciones == DOMAIN ClavesDe

\* The value of each leaf, by key.
Hojas(e, sc, ec, cbr, mr, eb) ==
    [ESALs |-> e, FlexuralStrength |-> sc, ModulusOfElasticity |-> ec,
     CBR |-> cbr, ResilientModulus |-> mr, LayerThickness |-> eb]

\* How a top-level key appears: absent, a number, or an object holding some
\* of its keys.
FormasDe(s) ==
    { [tipo |-> "ausente", claves |-> {}], [tipo |-> "escalar", claves |-> {}] }
    \cup { [tipo |-> "dict", claves |-> K] : K \in SUBSET ClavesDe[s] }

Estructura(forma, h) ==
    [forma |-> "dict",
     secc |-> [s \in {t \in Secciones : forma[t].tipo # "ausente"} |->
                 IF forma[s].tipo = "escalar"
                 THEN [forma |-> "escalar", campos |-> [c \in {} |-> 0]]
                 ELSE [forma |-> "dict",
                       campos |-> [c \in forma[s].claves |-> h[c]]]]]

Completa == [s \in Secciones |-> [tipo |-> "dict", claves |-> ClavesDe[s]]]

HojasNominales == Hojas(MaxESALs, MaxSc, MaxEc, MaxCBR, MaxMR, MaxEspesorBase)

\* Complete inputs over every combination of values, and every partial
\* shape of the nominal input.
Contenidos ==
    { Estructura(Completa, Hojas(e, sc, ec, cbr, mr, eb)) :
        e \in ValoresESALs, sc \in ValoresSc, ec \in ValoresEc,
        cbr \in ValoresCBR, mr \in ValoresMR, eb \in ValoresEspesorBase }
    \cup { Estructura(f, HojasNominales) :
             f \in { g \in [Secciones -> UNION {FormasDe(s) : s \in Secciones}] :
                       \A s \in Secciones : g[s] \in FormasDe(s) } }
    \cup { [forma |-> "lista", secc |-> [s \in {} |-> 0]],
           [forma |-> "malformado", secc |-> [s \in {} |-> 0]] }

\* An exception in flight: its class and the text it carries.
Exc(cls, txt) == [cls |-> cls, txt |-> txt]

SinExc == Exc("none", "")

\* Mutant: no os.path.exists test; open() raises its own FileNotFoundError,
\* whose text names the file and not the working directory.
leer_datos_entrada_sin_exists(existe, contenido, directorio) ==
    IF ~existe
    THEN [exc |-> Exc("FileNotFoundError", "datos_entrada.json"),
          datos |-> contenido]
    ELSE IF contenido.forma = "malformado"
         THEN [exc |-> Exc("JSONDecodeError", ""), datos |-> contenido]
         ELSE [exc |-> SinExc, datos |-> contenido]

\* leer_datos_entrada(archivo): FileNotFoundError naming os.getcwd() when the
\* file does not exist; otherwise what json.load gives.
leer_datos_entrada(existe, contenido, directorio) ==
    IF ~existe THEN [exc |-> Exc("FileNotFoundError", directorio), datos |-> contenido]
    ELSE IF contenido.forma = "malformado"
         THEN [exc |-> Exc("JSONDecodeError", ""), datos |-> contenido]
         ELSE [exc |-> SinExc, datos |-> contenido]

\* Mutant: the leaf is read with a default, as dict.get(c, 0) would.
SubscriptConDefecto(d, s, c) ==
    IF d.forma # "dict" THEN [exc |-> Exc("TypeError", ""), val |-> Nada]
    ELSE IF s \notin DOMAIN d.secc THEN [exc |-> Exc("KeyError", s), val |-> Nada]
    ELSE IF d.secc[s].forma # "dict" THEN [exc |-> Exc("TypeError", ""), val |-> Nada]
    ELSE IF c \notin DOMAIN d.secc[s].campos
         THEN [exc |-> SinExc, val |-> Num(0)]
         ELSE [exc |-> SinExc, val |-> Num(d.secc[s].campos[c])]

\* datos[s][c]: KeyError naming the absent key, TypeError when the value
\* subscripted is no object.
Subscript(d, s, c) ==
    IF d.forma # "dict" THEN [exc |-> Exc("TypeError", ""), val |-> Nada]
    ELSE IF s \notin DOMAIN d.secc THEN [exc |-> Exc("KeyError", s), val |-> Nada]
    ELSE IF d.secc[s].forma # "dict" THEN [exc |-> Exc("TypeError", ""), val |-> Nada]
    ELSE IF c \notin DOMAIN d.secc[s].campos
         THEN [exc |-> Exc("KeyError", c), val |-> Nada]
         ELSE [exc |-> SinExc, val |-> Num(d.secc[s].campos[c])]

\* The lookups of lines 85-94, in the order main() makes them.
Lecturas ==
    << <<"Traffic", "ESALs">>,
       <<"Concrete", "FlexuralStrength">>,
       <<"Concrete", "ModulusOfElasticity">>,
       <<"Subgrade", "CBR">>,
       <<"Structure", "ResilientModulus">>,
       <<"Structure", "LayerThickness">> >>

\* The exception of the first lookup that fails, from the i-th on.
RECURSIVE PrimerFallo(_, _)
PrimerFallo(d, i) ==
    IF i > Len(Lecturas) THEN SinExc
    ELSE LET r == Subscript(d, Lecturas[i][1], Lecturas[i][2])
         IN  IF r.exc # SinExc THEN r.exc ELSE PrimerFallo(d, i + 1)

(***************************************************************************)
(* main()                                                                  *)
(*                                                                         *)
(* main() is deterministic: each statement is an operator from the         *)
(* environment e (the file and the working directory) and the state m of   *)
(* main() to the state after the statement.                                *)
(***************************************************************************)

\* The constants main() passes to the solver (lines 86, 87, 89, 92).
ZR == -1645

So == 390

Cd == 1000

delta_PSI == 2000

VARIABLES
    entorno,    \* existe: os.path.exists("datos_entrada.json");
                \* contenido: what the file holds; directorio: os.getcwd()
    m           \* main(): pc, the statement it is at; datos, the parsed
                \* input; loc, its locals; T, espesor_inicial, iter: the
                \* solver's terms, loop variable and repetitions done;
                \* salida, standard output line by line; excepcion, the
                \* exception in flight; and four history fields: etapas, the
                \* stages started; llamadas, the calls of the calculators;
                \* capturas, the except clauses entered; fallo, the stage
                \* whose exception left the try block

vars == << entorno, m >>

SinLocales ==
    [ESALs |-> Nada, Sc |-> Nada, Ec |-> Nada, CBR |-> Nada,
     resilient_modulus_base |-> Nada, espesor_base |-> Nada,
     MRSG |-> Nada, k_total_psi_in |-> Nada, espesor_losa |-> Nada]

SinTerminos ==
    [A |-> Nada, B |-> Nada, C |-> Nada, D1 |-> Nada, D2 |-> Nada, exc |-> Nada]

SinDatos == [forma |-> "none", secc |-> [s \in {} |-> 0]]

Entornos ==
    { [existe |-> TRUE, contenido |-> c, directorio |-> d] :
        c \in Contenidos, d \in Directorios }
    \cup { [existe |-> FALSE, contenido |-> SinDatos, directorio |-> d] :
             d \in Directorios }

\* main() at line 78, the first print done.
MainInicial ==
    [pc |-> "leer",
     datos |-> SinDatos,
     loc |-> SinLocales,
     T |-> SinTerminos,
     espesor_inicial |-> Nada,
     iter |-> 0,
     salida |-> << EvTxt("Leyendo datos desde el archivo", "datos_entrada.json") >>,
     excepcion |-> SinExc,
     etapas |-> << >>,
     llamadas |-> << >>,
     capturas |-> << >>,
     fallo |-> "none"]

Init ==
    /\ entorno \in Entornos
    /\ m = MainInicial

\* A stage of the try block starts.
Etapa(s, nombre) == [s EXCEPT !.etapas = Append(@, nombre)]

\* An exception raised in the stage under way leaves the try block for the
\* except clauses.
Lanzar(s, e) ==
    [s EXCEPT !.excepcion = e, !.fallo = s.etapas[Len(s.etapas)], !.pc = "except"]

Llamada(fn, args) == [fn |-> fn, args |-> args, ret |-> Nada]

\* A calculator is called: its call is recorded and its lines are printed.
Llamar(s, fn, args, out) ==
    [s EXCEPT !.llamadas = Append(@, Llamada(fn, args)), !.salida = @ \o out]

\* The last call of llamadas returned ret.
Retorno(ll, ret) == [ll EXCEPT ![Len(ll)].ret = ret]

\* Line 82: datos = leer_datos_entrada(archivo_entrada)
StmtLeer(e, s) ==
    LET s1 == Etapa(s, "leer")
        r == leer_datos_entrada(e.existe, e.contenido, e.directorio)
    IN  IF r.exc # SinExc THEN Lanzar(s1, r.exc)
        ELSE [s1 EXCEPT !.datos = r.datos, !.pc = "extraer"]

\* Lines 85-94: the six lookups.
StmtExtraer(e, s) ==
    LET s1 == Etapa(s, "extraer")
        x == PrimerFallo(s.datos, 1)
        val(i) == Subscript(s.datos, Lecturas[i][1], Lecturas[i][2]).val
    IN  IF x # SinExc THEN Lanzar(s1, x)
        ELSE [s1 EXCEPT !.loc.ESALs = val(1), !.loc.Sc = val(2),
                        !.loc.Ec = val(3), !.loc.CBR = val(4),
                        !.loc.resilient_modulus_base = val(5),
                        !.loc.espesor_base = val(6),
                        !.pc = "mrsg"]

\* Mutant: main() passes the CBR where the MRSG is expected.
ArgMRSGEsCBR(l) == l.CBR

\* The argument main() passes as MRSG to calcular_k_subestructura_psi_in.
ArgMRSG(l) == l.MRSG

\* The argument main() passes as k to calcular_espesor_losa_rigida.
ArgK(l) == l.k_total_psi_in

\* Line 97: MRSG = calcular_mrsg_subgrade(CBR)
StmtMRSG(e, s) ==
    LET r == calcular_mrsg_subgrade(s.loc.CBR)
        s1 == Llamar(Etapa(s, "mrsg"), "calcular_mrsg_subgrade",
                     << s.loc.CBR >>, r.out)
    IN  IF r.exc # Nada THEN Lanzar(s1, Exc(r.exc.k, ""))
        ELSE [s1 EXCEPT !.loc.MRSG = r.ret,
                        !.llamadas = Retorno(@, r.ret),
                        !.pc = "k"]

\* Line 98: k_total_psi_in = calcular_k_subestructura_psi_in(MRSG, ...)
StmtK(e, s) ==
    LET args == << ArgMRSG(s.loc), s.loc.resilient_modulus_base,
                   s.loc.espesor_base >>
        r == calcular_k_subestructura_psi_in(args[1], args[2], args[3])
        s1 == Llamar(Etapa(s, "k"), "calcular_k_subestructura_psi_in",
                     args, r.out)
    IN  IF r.exc # Nada THEN Lanzar(s1, Exc(r.exc.k, ""))
        ELSE [s1 EXCEPT !.loc.k_total_psi_in = r.ret,
                        !.llamadas = Retorno(@, r.ret),
                        !.pc = "espesor"]

\* Line 101, the call, and lines 59-69 of the solver: the terms and the
\* first value of the loop variable.
StmtEspesor(e, s) ==
    LET args == << s.loc.ESALs, F(ZR), F(So), s.loc.Sc, F(Cd), s.loc.Ec,
                   ArgK(s.loc), F(delta_PSI) >>
        t == TerminosEspesor(args[1], args[2], args[3], args[4],
                             args[5], args[6], args[7], args[8])
        s1 == Llamar(Etapa(s, "espesor"), "calcular_espesor_losa_rigida",
                     args, << Ev("Calculando espesor de losa", Nada) >>)
    IN  IF t.exc # Nada THEN Lanzar(s1, Exc(t.exc.k, ""))
        ELSE [s1 EXCEPT !.T = t,
                        !.espesor_inicial = F(EspesorInicial),
                        !.pc = "bucle"]

\* Lines 70-71: one repetition of the loop.
StmtBucle(e, s) ==
    LET x == IterarEspesor(s.espesor_inicial, s.T)
    IN  IF IsExc(x) THEN Lanzar(s, Exc(x.k, ""))
        ELSE [s EXCEPT !.espesor_inicial = x, !.iter = @ + 1]

\* Lines 72-73 and the assignment of line 101.
StmtRetornarEspesor(e, s) ==
    LET r == FinEspesor(<< >>, s.espesor_inicial)
        s1 == [s EXCEPT !.salida = @ \o r.out]
    IN  IF r.exc # Nada THEN Lanzar(s1, Exc(r.exc.k, ""))
        ELSE [s1 EXCEPT !.loc.espesor_losa = r.ret,
                        !.llamadas = Retorno(@, r.ret),
                        !.pc = "resumen"]

\* Line 105 prints the CBR read from the input.
CBRFinal(l) == l.CBR

\* Lines 104-108: the final summary.
StmtResumen(e, s) ==
    [Etapa(s, "resumen") EXCEPT
        !.salida = @ \o
            << Ev("RESULTADOS FINALES", Nada),
               Ev("CBR ingresado (final)", CBRFinal(s.loc)),
               Ev("MRSG (final)", s.loc.MRSG),
               Ev("K-Value total (final)", s.loc.k_total_psi_in),
               Ev("Espesor final de losa requerida", s.loc.espesor_losa) >>,
        !.pc = "fin"]

\* Mutant: the summary is placed after the try statement, so the except
\* clauses fall into it.
TrasExceptResumen == "resumen"

\* Where control goes after an except clause: main() ends.
TrasExcept == "fin"

\* Mutant: the generic clause is listed first and catches every exception.
ClausulaGenericaPrimero(cls) == "Exception"

\* Lines 110, 113, 115: the except clause that catches an exception of class
\* cls, the first one that matches.
Clausula(cls) ==
    IF cls = "FileNotFoundError" THEN "FileNotFoundError"
    ELSE IF cls = "KeyError" THEN "KeyError"
    ELSE "Exception"

\* An except clause ran: the exception is handled and main() ends.
Capturar(s, clausula, lineas) ==
    [s EXCEPT !.salida = @ \o lineas,
              !.capturas = Append(@, [clausula |-> clausula,
                                      cls |-> s.excepcion.cls]),
              !.excepcion = SinExc,
              !.pc = TrasExcept]

\* Lines 110-112: except FileNotFoundError
StmtExceptFileNotFoundError(e, s) ==
    Capturar(s, "FileNotFoundError",
             << EvTxt("InputNotFound", s.excepcion.txt),
                EvTxt("Asegurese de que el archivo", "datos_entrada.json") >>)

\* Lines 113-114: except KeyError
StmtExceptKeyError(e, s) ==
    Capturar(s, "KeyError", << EvTxt("MissingField", s.excepcion.txt) >>)

\* Lines 115-116: except Exception
StmtExceptException(e, s) ==
    Capturar(s, "Exception", << EvTxt("Unexpected", s.excepcion.cls) >>)

Leer ==
    /\ m.pc = "leer"
    /\ m' = StmtLeer(entorno, m)
    /\ UNCHANGED entorno

Extraer ==
    /\ m.pc = "extraer"
    /\ m' = StmtExtraer(entorno, m)
    /\ UNCHANGED entorno

CalcularMRSG ==
    /\ m.pc = "mrsg"
    /\ m' = StmtMRSG(entorno, m)
    /\ UNCHANGED entorno

CalcularK ==
    /\ m.pc = "k"
    /\ m' = StmtK(entorno, m)
    /\ UNCHANGED entorno

CalcularEspesor ==
    /\ m.pc = "espesor"
    /\ m' = StmtEspesor(entorno, m)
    /\ UNCHANGED entorno

Bucle ==
    /\ m.pc = "bucle"
    /\ m.iter < Repeticiones
    /\ m' = StmtBucle(entorno, m)
    /\ UNCHANGED entorno

RetornarEspesor ==
    /\ m.pc = "bucle"
    /\ m.iter = Repeticiones
    /\ m' = StmtRetornarEspesor(entorno, m)
    /\ UNCHANGED entorno

Resumen ==
    /\ m.pc = "resumen"
    /\ m' = StmtResumen(entorno, m)
    /\ UNCHANGED entorno

ExceptFileNotFoundError ==
    /\ m.pc = "except"
    /\ Clausula(m.excepcion.cls) = "FileNotFoundError"
    /\ m' = StmtExceptFileNotFoundError(entorno, m)
    /\ UNCHANGED entorno

ExceptKeyError ==
    /\ m.pc = "except"
    /\ Clausula(m.excepcion.cls) = "KeyError"
    /\ m' = StmtExceptKeyError(entorno, m)
    /\ UNCHANGED entorno

ExceptException ==
    /\ m.pc = "except"
    /\ Clausula(m.excepcion.cls) = "Exception"
    /\ m' = StmtExceptException(entorno, m)
    /\ UNCHANGED entorno

Next ==
    \/ Leer
    \/ Extraer
    \/ CalcularMRSG
    \/ CalcularK
    \/ CalcularEspesor
    \/ Bucle
    \/ RetornarEspesor
    \/ Resumen
    \/ ExceptFileNotFoundError
    \/ ExceptKeyError
    \/ ExceptException

Spec == Init /\ [][Next]_vars

(***************************************************************************)
(* Properties                                                              *)
(***************************************************************************)

\* The stages of main() in program order.
OrdenEtapas == << "leer", "extraer", "mrsg", "k", "espesor", "resumen" >>

Rango(seq) == { seq[i] : i \in DOMAIN seq }

\* The lines of standard output that report tag.
Lineas(tag) == { i \in DOMAIN m.salida : m.salida[i].tag = tag }

Emitido(tag) == Lineas(tag) # {}

\* The error reports printed by the except clauses.
Informes ==
    { i \in DOMAIN m.salida :
        m.salida[i].tag \in {"InputNotFound", "MissingField", "Unexpected"} }

\* The calls made of calculator fn.
LlamadasDe(fn) == { i \in DOMAIN m.llamadas : m.llamadas[i].fn = fn }

Calculadoras ==
    { "calcular_mrsg_subgrade", "calcular_k_subestructura_psi_in",
      "calcular_espesor_losa_rigida" }

\* C1: the stages run strictly in the order read-input, extract-fields,
\* calcular_mrsg_subgrade, calcular_k_subestructura_psi_in,
\* calcular_espesor_losa_rigida, final summary; once a stage has failed, the
\* failed stage stays the last one started and "RESULTADOS FINALES" is not
\* printed; the summary is printed only after all six stages.
C1_OrdenEstricto ==
    /\ Len(m.etapas) <= Len(OrdenEtapas)
    /\ m.etapas = SubSeq(OrdenEtapas, 1, Len(m.etapas))
    /\ m.fallo # "none" =>
          /\ m.etapas # << >>
          /\ m.etapas[Len(m.etapas)] = m.fallo
          /\ ~Emitido("RESULTADOS FINALES")
    /\ Emitido("RESULTADOS FINALES") => m.etapas = OrdenEtapas
    /\ m.pc = "fin" /\ m.fallo = "none" => m.etapas = OrdenEtapas

\* C1 witness: a run whose second calculator failed has ended.
C1_Witness == m.pc = "fin" /\ m.fallo = "k"

\* The report the except clauses print for an exception of class cls.
InformeDe(cls) ==
    IF cls = "FileNotFoundError" THEN "InputNotFound"
    ELSE IF cls = "KeyError" THEN "MissingField"
    ELSE "Unexpected"

\* What holds of the except clauses in every state: at most one is entered,
\* by the exception's class, and it prints one report of that class; a
\* missing file is reported as InputNotFound and a calculator's failure by
\* the generic clause; no stage is started twice; an exception is in flight
\* only on the way to its clause.
CapturaUnica ==
    /\ Len(m.capturas) <= 1
    /\ Cardinality(Informes) = Len(m.capturas)
    /\ (m.fallo = "none") = (m.pc # "except" /\ m.capturas = << >>)
    /\ (m.pc = "except") = (m.excepcion # SinExc)
    /\ m.pc = "except" => m.capturas = << >>
    /\ m.capturas # << >> =>
          /\ m.pc = "fin"
          /\ \A i \in Informes : m.salida[i].tag = InformeDe(m.capturas[1].cls)
          /\ ~entorno.existe => m.capturas[1].cls = "FileNotFoundError"
          /\ m.fallo \in {"mrsg", "k", "espesor"} =>
                m.capturas[1].clausula = "Exception"
    /\ Cardinality(Rango(m.etapas)) = Len(m.etapas)

\* An upper bound on the statements main() has yet to run.
Restantes(s) ==
    CASE s.pc = "leer" -> Repeticiones + 9
      [] s.pc = "extraer" -> Repeticiones + 8
      [] s.pc = "mrsg" -> Repeticiones + 7
      [] s.pc = "k" -> Repeticiones + 6
      [] s.pc = "espesor" -> Repeticiones + 5
      [] s.pc = "bucle" -> Repeticiones + 4 - s.iter
      [] s.pc = "resumen" -> 3
      [] s.pc = "except" -> 2
      [] OTHER -> 0

\* C2: a failure of the pipeline is caught exactly once, by the clause of its
\* class, which prints exactly one error report of that class; no stage is
\* retried; main() is never at a statement that cannot run, every statement
\* brings its end nearer, and the exception is no longer in flight at the end.
C2_CapturaUnica ==
    /\ []CapturaUnica
    /\ [](m.pc = "fin" => m.excepcion = SinExc)
    /\ [](m.pc \in {"fin", "except", "bucle"} \cup Rango(OrdenEtapas))
    /\ [](m.pc = "bucle" => m.iter <= Repeticiones)
    /\ [][Restantes(m') < Restantes(m)]_vars

\* C2 witness: a numeric failure was caught by the generic clause.
C2_Witness ==
    /\ m.pc = "fin"
    /\ m.fallo = "espesor"
    /\ m.capturas = << [clausula |-> "Exception", cls |-> "ValueError"] >>

\* C4: when the input file does not exist, only the read stage is started,
\* no calculator is called, and the run ends with one InputNotFound report
\* giving the working directory.
C4_ArchivoAusente ==
    ~entorno.existe =>
        /\ \A i \in DOMAIN m.etapas : m.etapas[i] = "leer"
        /\ m.llamadas = << >>
        /\ m.loc = SinLocales
        /\ m.pc \in {"leer", "except", "fin"}
        /\ m.pc = "fin" =>
              /\ Cardinality(Informes) = 1
              /\ \A i \in Informes :
                    m.salida[i] = EvTxt("InputNotFound", entorno.directorio)

\* C4 witness: the run without an input file has ended.
C4_Witness == ~entorno.existe /\ m.pc = "fin" /\ Emitido("InputNotFound")

\* The i-th lookup of main() finds its key, or the key's parent, absent.
Ausente(c, i) ==
    LET s == Lecturas[i][1]
        k == Lecturas[i][2]
    IN  \/ s \notin DOMAIN c.secc
        \/ c.secc[s].forma = "dict" /\ k \notin DOMAIN c.secc[s].campos

\* The input is a JSON object that lacks a required key.
HayClaveAusente ==
    /\ entorno.existe
    /\ entorno.contenido.forma = "dict"
    /\ \E i \in DOMAIN Lecturas : Ausente(entorno.contenido, i)

\* The first lookup, in main()'s order, whose key is absent.
PrimeraAusente ==
    CHOOSE i \in DOMAIN Lecturas :
        /\ Ausente(entorno.contenido, i)
        /\ \A j \in 1 .. (i - 1) : ~Ausente(entorno.contenido, j)

\* The name a KeyError gives for lookup i: the parent key when it is absent.
NombreAusente(i) ==
    IF Lecturas[i][1] \notin DOMAIN entorno.contenido.secc
    THEN Lecturas[i][1] ELSE Lecturas[i][2]

\* A lookup before the first absent key finds a number where an object is
\* expected.
EscalarAntes ==
    \E j \in 1 .. (PrimeraAusente - 1) :
        entorno.contenido.secc[Lecturas[j][1]].forma = "escalar"

\* No calculator was called and no intermediate or final value was printed.
SinCalculo ==
    /\ m.llamadas = << >>
    /\ \A i \in DOMAIN m.salida : m.salida[i].val = Nada
    /\ m.loc.MRSG = Nada
    /\ m.loc.k_total_psi_in = Nada
    /\ m.loc.espesor_losa = Nada

\* C3 as stated: whenever a required key is absent, no calculator runs and
\* the run ends with a MissingField report naming an absent key.
C3_Original ==
    HayClaveAusente =>
        /\ SinCalculo
        /\ m.pc = "fin" =>
              \E i \in Informes :
                 /\ m.salida[i].tag = "MissingField"
                 /\ \E j \in DOMAIN Lecturas :
                       /\ Ausente(entorno.contenido, j)
                       /\ m.salida[i].txt = NombreAusente(j)

\* C3 amended: whenever a required key is absent, no calculator runs and no
\* value is printed; the run ends with one report: MissingField naming the
\* first absent key in main()'s order, or, when an earlier lookup finds a
\* number where an object is expected, the generic report.
C3_ClaveAusente ==
    HayClaveAusente =>
        /\ SinCalculo
        /\ m.pc \in {"leer", "extraer", "except", "fin"}
        /\ m.pc = "fin" =>
              /\ Cardinality(Informes) = 1
              /\ \A i \in Informes :
                    IF EscalarAntes
                    THEN m.salida[i] = EvTxt("Unexpected", "TypeError")
                    ELSE m.salida[i] =
                            EvTxt("MissingField", NombreAusente(PrimeraAusente))

\* C3 witness: a run on an input lacking a key ended with MissingField.
C3_Witness == HayClaveAusente /\ m.pc = "fin" /\ Emitido("MissingField")

\* value is a number that is zero or negative.
NoPositivo(value) == value.k = "float" /\ value.v <= 0

Iniciada(etapa) == etapa \in Rango(m.etapas)

\* C5 as stated: for a CBR that is zero or negative, calcular_mrsg_subgrade
\* fails: it returns no value, prints no computed MRSG, and the run does not
\* go on to the composite k-value stage.
C5_CBRNoPositivo ==
    NoPositivo(m.loc.CBR) /\ Iniciada("mrsg") =>
        /\ m.fallo = "mrsg"
        /\ m.loc.MRSG = Nada
        /\ ~Emitido("MRSG calculado")
        /\ ~Iniciada("k")

\* C6: for a LayerThickness that is zero or negative,
\* calcular_k_subestructura_psi_in fails: its call returns nothing, no k_total
\* is assigned, and the thickness solver is never called.
C6_EspesorBaseNoPositivo ==
    NoPositivo(m.loc.espesor_base) /\ Iniciada("k") =>
        /\ m.fallo = "k"
        /\ m.pc \in {"except", "fin"}
        /\ m.llamadas[Len(m.llamadas)].fn = "calcular_k_subestructura_psi_in"
        /\ m.llamadas[Len(m.llamadas)].ret = Nada
        /\ m.loc.k_total_psi_in = Nada
        /\ LlamadasDe("calcular_espesor_losa_rigida") = {}
        /\ ~Iniciada("espesor")
        /\ m.pc = "fin" => Emitido("Unexpected")

\* C6 witness: a run with a non-positive base thickness failed in the
\* k-value calculator and ended.
C6_Witness ==
    /\ NoPositivo(m.loc.espesor_base)
    /\ m.fallo = "k"
    /\ m.pc = "fin"

\* C7: for an ESALs that is zero or negative the solver, when called, fails
\* before its loop and returns no thickness; the run never assigns a
\* thickness and never prints the final summary.
C7_ESALsNoPositivo ==
    NoPositivo(m.loc.ESALs) =>
        /\ m.loc.espesor_losa = Nada
        /\ ~Emitido("RESULTADOS FINALES")
        /\ ~Iniciada("resumen")
        /\ Iniciada("espesor") =>
              /\ m.fallo = "espesor"
              /\ m.pc \in {"except", "fin"}
              /\ m.iter = 0
              /\ m.llamadas[Len(m.llamadas)].fn = "calcular_espesor_losa_rigida"
              /\ m.llamadas[Len(m.llamadas)].ret = Nada
              /\ ~Emitido("Espesor calculado de losa")

\* C7 witness: a run with a non-positive ESALs failed in the solver and ended.
C7_Witness ==
    /\ NoPositivo(m.loc.ESALs)
    /\ m.fallo = "espesor"
    /\ m.pc = "fin"

\* First values and numbers of repetitions tried for the solver's loop.
MaxInicial == 8

MaxRepeticiones == 11

\* ((A + B) / (D1 + D2)) ^ (1 / 1.132), evaluated once.
UnaVez(t) ==
    PyPow(PyDiv(PyAdd(t.A, t.B), PyAdd(t.D1, t.D2)), DivFx(Scale, DivExp))

\* The solver with the arguments a of a recorded call.
Solver(a) ==
    calcular_espesor_losa_rigida(a[1], a[2], a[3], a[4], a[5], a[6], a[7], a[8])

SolverDesde(inicial, n, a) ==
    EspesorDesde(inicial, n, a[1], a[2], a[3], a[4], a[5], a[6], a[7], a[8])

\* C8: the loop of the solver is a no-op: before the first repetition the
\* variable holds 7.0; after every repetition, the 1st to the 10th, it holds
\* the single-shot value of ((A+B)/(D1+D2))^(1/1.132); the value returned is
\* that value rounded; and from any first value, with any number of
\* repetitions from 1 up, the solver prints and returns the same.
C8_BucleSinEfecto ==
    /\ m.pc = "bucle" =>
          /\ m.iter = 0 => m.espesor_inicial = F(EspesorInicial)
          /\ m.iter >= 1 => m.espesor_inicial = UnaVez(m.T)
    /\ m.loc.espesor_losa # Nada => m.loc.espesor_losa = PyRound2(UnaVez(m.T))
    /\ m.pc = "bucle" /\ m.iter = Repeticiones =>
          \A g \in 0 .. MaxInicial, n \in 1 .. MaxRepeticiones :
              SolverDesde(Num(g), n, m.llamadas[3].args)
                 = Solver(m.llamadas[3].args)

\* C8 witness: the tenth repetition is done.
C8_Witness ==
    /\ m.pc = "bucle"
    /\ m.iter = Repeticiones
    /\ m.espesor_inicial.k = "float"
    /\ m.espesor_inicial # F(EspesorInicial)

\* The statement main() is at, as an operator on its state.
Paso(e, s) ==
    CASE s.pc = "leer" -> StmtLeer(e, s)
      [] s.pc = "extraer" -> StmtExtraer(e, s)
      [] s.pc = "mrsg" -> StmtMRSG(e, s)
      [] s.pc = "k" -> StmtK(e, s)
      [] s.pc = "espesor" -> StmtEspesor(e, s)
      [] s.pc = "bucle" /\ s.iter < Repeticiones -> StmtBucle(e, s)
      [] s.pc = "bucle" /\ s.iter = Repeticiones -> StmtRetornarEspesor(e, s)
      [] s.pc = "resumen" -> StmtResumen(e, s)
      [] s.pc = "except" /\ Clausula(s.excepcion.cls) = "FileNotFoundError" ->
            StmtExceptFileNotFoundError(e, s)
      [] s.pc = "except" /\ Clausula(s.excepcion.cls) = "KeyError" ->
            StmtExceptKeyError(e, s)
      [] s.pc = "except" /\ Clausula(s.excepcion.cls) = "Exception" ->
            StmtExceptException(e, s)

\* A whole run of main() in environment e from state s: its last state.
RECURSIVE Correr(_, _)
Correr(e, s) == IF s.pc = "fin" THEN s ELSE Correr(e, Paso(e, s))

\* The input gives a ModulusOfElasticity.
TieneEc(e) ==
    /\ e.existe
    /\ e.contenido.forma = "dict"
    /\ "Concrete" \in DOMAIN e.contenido.secc
    /\ "ModulusOfElasticity" \in DOMAIN e.contenido.secc["Concrete"].campos

\* The environment e with ModulusOfElasticity set to ec, all else the same.
ConEc(e, ec) ==
    [e EXCEPT !.contenido.secc["Concrete"].campos["ModulusOfElasticity"] = ec]

\* Other values of ModulusOfElasticity.
OtrosEc == {-1, 0, 1, MaxEc \div 2, MaxEc}

\* What a run of main() shows: its output, how it ended, and its results.
Resultado(s) ==
    [salida |-> s.salida, pc |-> s.pc, fallo |-> s.fallo,
     capturas |-> s.capturas, etapas |-> s.etapas, iter |-> s.iter,
     MRSG |-> s.loc.MRSG, k_total_psi_in |-> s.loc.k_total_psi_in,
     espesor_losa |-> s.loc.espesor_losa]

\* C9: Ec has no influence.  A run of main() that has ended shows the same
\* output, the same failure or the same results as the run on the input
\* with any other ModulusOfElasticity; and a call of the solver prints,
\* raises and returns the same with any other Ec.
C9_EcSinInfluencia ==
    /\ m.pc = "fin" /\ TieneEc(entorno) =>
          \A ec \in OtrosEc :
              Resultado(Correr(ConEc(entorno, ec), MainInicial)) = Resultado(m)
    /\ Len(m.llamadas) = 3 /\ m.pc \in {"except", "bucle"} /\ m.iter = 0 =>
          \A ec \in OtrosEc :
              Solver([m.llamadas[3].args EXCEPT ![6] = Num(ec)])
                 = Solver(m.llamadas[3].args)

\* C9 witness: a run that returned a thickness has ended, on an input whose
\* ModulusOfElasticity is not the largest tried.
C9_Witness ==
    /\ m.pc = "fin"
    /\ m.fallo = "none"
    /\ m.loc.espesor_losa.k = "float"
    /\ m.loc.Ec = Num(MaxEc \div 2)

\* The number the input file gives for key c of section s.
Entrada(s, c) == Num(entorno.contenido.secc[s].campos[c])

\* C10: each calculator is called at most once, and exactly once, in order,
\* in a successful run; the MRSG passed to calcular_k_subestructura_psi_in is
\* the value calcular_mrsg_subgrade returned, the k passed to
\* calcular_espesor_losa_rigida is the value calcular_k_subestructura_psi_in
\* returned; every local, once assigned, holds the input's number or the
\* value its calculator returned; and the summary reports the input CBR and
\* the three returned values.
C10_FlujoDeValores ==
    /\ \A fn \in Calculadoras : Cardinality(LlamadasDe(fn)) <= 1
    /\ m.loc.CBR # Nada =>
          /\ m.loc.ESALs = Entrada("Traffic", "ESALs")
          /\ m.loc.Sc = Entrada("Concrete", "FlexuralStrength")
          /\ m.loc.Ec = Entrada("Concrete", "ModulusOfElasticity")
          /\ m.loc.CBR = Entrada("Subgrade", "CBR")
          /\ m.loc.resilient_modulus_base = Entrada("Structure", "ResilientModulus")
          /\ m.loc.espesor_base = Entrada("Structure", "LayerThickness")
    /\ Len(m.llamadas) >= 1 =>
          /\ m.llamadas[1].fn = "calcular_mrsg_subgrade"
          /\ m.llamadas[1].args = << Entrada("Subgrade", "CBR") >>
          /\ m.loc.MRSG = m.llamadas[1].ret
    /\ Len(m.llamadas) >= 2 =>
          /\ m.llamadas[2].fn = "calcular_k_subestructura_psi_in"
          /\ m.llamadas[2].args =
                << m.llamadas[1].ret,
                   Entrada("Structure", "ResilientModulus"),
                   Entrada("Structure", "LayerThickness") >>
          /\ m.llamadas[1].ret # Nada
          /\ m.loc.k_total_psi_in = m.llamadas[2].ret
    /\ Len(m.llamadas) >= 3 =>
          /\ m.llamadas[3].fn = "calcular_espesor_losa_rigida"
          /\ m.llamadas[3].args =
                << Entrada("Traffic", "ESALs"), F(ZR), F(So),
                   Entrada("Concrete", "FlexuralStrength"), F(Cd),
                   Entrada("Concrete", "ModulusOfElasticity"),
                   m.llamadas[2].ret, F(delta_PSI) >>
          /\ m.llamadas[2].ret # Nada
          /\ m.loc.espesor_losa = m.llamadas[3].ret
    /\ m.pc = "fin" /\ m.fallo = "none" =>
          /\ Len(m.llamadas) = 3
          /\ \A i \in 1 .. 3 : m.llamadas[i].ret.k = "float"
          /\ SubSeq(m.salida, Len(m.salida) - 4, Len(m.salida)) =
                << Ev("RESULTADOS FINALES", Nada),
                   Ev("CBR ingresado (final)", Entrada("Subgrade", "CBR")),
                   Ev("MRSG (final)", m.llamadas[1].ret),
                   Ev("K-Value total (final)", m.llamadas[2].ret),
                   Ev("Espesor final de losa requerida", m.llamadas[3].ret) >>

\* C10 witness: a successful run has printed its summary.
C10_Witness ==
    /\ m.pc = "fin"
    /\ m.fallo = "none"
    /\ Emitido("RESULTADOS FINALES")
    /\ m.loc.MRSG.v > 0

=============================================================================
